---- MODULE Spec2Model ----
(***************************************************************************)
(* Model of temperature_ds18s20_stanley_driver/__main__.py: the DS18S20    *)
(* sensor reader (two regular expressions over a two-line text report,     *)
(* wrapped by trap_nan) and the single run of async_main that reads every  *)
(* configured sensor and posts the readings to the Stanley archiver.       *)
(*                                                                         *)
(* Text is modelled as sequences of one-character strings so that the      *)
(* split and the regular-expression matches are computed, not assumed.     *)
(* A float is the exact rational num/den; nan is a separate value.         *)
(***************************************************************************)
EXTENDS Integers, Sequences, FiniteSets, TLC

VARIABLES
    pc,               \* position in main / async_main, or in the reader harness
    environ,          \* os.environ
    argv,             \* the command line as given to the process
    arguments,        \* argparse.Namespace returned by parse_arguments
    password,         \* local variable of async_main
    stanley,          \* the StanleyAiohttpInterface, once constructed
    position,         \* index into arguments.sensor of the comprehension
    pending,          \* arguments of pd.Series evaluated so far for this sensor
    all_time_series,  \* dict sensor -> series
    readings,         \* dict series name -> series
    clock,            \* logical wall clock: one tick per observable event
    reader_calls,     \* log of the calls of read_ds18s20_temperature
    post_calls,       \* log of the payloads handed to post_readings
    log,              \* messages handed to the logging module by async_main
    exception,        \* the exception propagating out of async_main, if any
    exit_status,      \* process exit status
    environ_at_start, \* the environment the process was started with
    sensor_id,        \* reader harness: argument of read_ds18s20_temperature
    sysfs,            \* the files under /sys/bus/w1/devices seen by the last read
    result            \* outcome of the last call of read_ds18s20_temperature

vars == <<pc, environ, argv, arguments, password, stanley, position, pending,
          all_time_series, readings, clock, reader_calls, post_calls, log,
          exception, exit_status, environ_at_start, sensor_id, sysfs, result>>

None == "None"

\* a record-valued name that is not bound yet
Unbound == [unbound |-> TRUE]

EmptyDict == [k \in {} |-> None]

Max(S) == CHOOSE m \in S : \A n \in S : n <= m

Range(s) == {s[k] : k \in DOMAIN s}

-----------------------------------------------------------------------------
(* Floats                                                                  *)

Float(n, d) == [nan |-> FALSE, num |-> n, den |-> d]

NaN == [nan |-> TRUE, num |-> 0, den |-> 1]

-----------------------------------------------------------------------------
(* Text                                                                    *)

NL == "\n"

Digits == {"0", "1", "2", "5", "6", "7"}

\* \w of the re module, restricted to the alphabet of the sample reports
WordChars == Digits \cup {"a", "c", "r", "t", "x", "Y", "E", "S", "N", "O", "y", "e", "s", "_"}

DigitValue(c) ==
    CASE c = "0" -> 0
      [] c = "1" -> 1
      [] c = "2" -> 2
      [] c = "5" -> 5
      [] c = "6" -> 6
      [] c = "7" -> 7

StartsWith(s, p, lit) ==
    /\ p >= 1
    /\ p + Len(lit) - 1 <= Len(s)
    /\ SubSeq(s, p, p + Len(lit) - 1) = lit

\* str.split("\n")
RECURSIVE split(_)
split(s) ==
    IF \A k \in 1..Len(s) : s[k] # NL
    THEN <<s>>
    ELSE LET k == CHOOSE k \in 1..Len(s) :
                    s[k] = NL /\ \A j \in 1..(k - 1) : s[j] # NL
         IN <<SubSeq(s, 1, k - 1)>> \o split(SubSeq(s, k + 1, Len(s)))

\* "\n".join(lines), used to build the sample reports
RECURSIVE join(_)
join(lines) ==
    IF Len(lines) = 0 THEN <<>>
    ELSE IF Len(lines) = 1 THEN lines[1]
    ELSE lines[1] \o <<NL>> \o join(Tail(lines))

\* int of a run of decimal digits
RECURSIVE DigitsToInt(_)
DigitsToInt(ds) ==
    IF Len(ds) = 0 THEN 0
    ELSE 10 * DigitsToInt(SubSeq(ds, 1, Len(ds) - 1)) + DigitValue(ds[Len(ds)])

\* float(text) for text matched by -?\d+
float(text) ==
    IF text[1] = "-"
    THEN Float(0 - DigitsToInt(Tail(text)), 1)
    ELSE Float(DigitsToInt(text), 1)

\* the slip of dividing with // instead of /
DivideFloor(x, n) == Float(x.num \div n, x.den)

\* x / n for a float x and an integer n
Divide(x, n) == Float(x.num, x.den * n)

-----------------------------------------------------------------------------
(* The two patterns                                                        *)

YES == <<"Y", "E", "S">>

NO == <<"N", "O">>

CrcLiteral == <<":", " ", "c", "r", "c", "=">>

NoMatch == [matched |-> FALSE, group |-> <<>>]

\* the part of FIRST_LINE_PATTERN after the leading .* matches at offset p
FirstLineAt(line, p) ==
    /\ StartsWith(line, p, CrcLiteral)
    /\ p + 8 <= Len(line)
    /\ line[p + 6] \in WordChars
    /\ line[p + 7] \in WordChars
    /\ line[p + 8] = " "
    /\ (StartsWith(line, p + 9, YES) \/ StartsWith(line, p + 9, NO))

\* FIRST_LINE_PATTERN.match(line): the greedy .* gives the last offset that
\* matches; group is the text of (?P<valid>YES|NO)
FIRST_LINE_PATTERN(line) ==
    LET P == {p \in 1..(Len(line) + 1) : FirstLineAt(line, p)}
    IN IF P = {} THEN NoMatch
       ELSE LET p == Max(P)
            IN [matched |-> TRUE,
                group |-> IF StartsWith(line, p + 9, YES) THEN YES ELSE NO]

\* the longest run of digits of line that starts at offset p
DigitRun(line, p) ==
    LET E == {e \in p..Len(line) : \A k \in p..e : line[k] \in Digits}
    IN IF E = {} THEN <<>> ELSE SubSeq(line, p, Max(E))

\* the text of -?\d+ at offset p, or <<>> when it does not match there
SignedRun(line, p) ==
    IF p <= Len(line) /\ line[p] = "-"
    THEN (IF DigitRun(line, p + 1) = <<>> THEN <<>>
          ELSE <<"-">> \o DigitRun(line, p + 1))
    ELSE DigitRun(line, p)

SecondLineAt(line, p) ==
    /\ StartsWith(line, p, <<"t", "=">>)
    /\ SignedRun(line, p + 2) # <<>>

\* SECOND_LINE_PATTERN.match(line); group is the text of (?P<temperature>-?\d+)
SECOND_LINE_PATTERN(line) ==
    LET P == {p \in 1..(Len(line) + 1) : SecondLineAt(line, p)}
    IN IF P = {} THEN NoMatch
       ELSE [matched |-> TRUE, group |-> SignedRun(line, Max(P) + 2)]

-----------------------------------------------------------------------------
(* The sensor reader                                                       *)

Return(v) == [raised |-> FALSE, exception |-> None, value |-> v]

Raise(e) == [raised |-> TRUE, exception |-> e, value |-> NaN]

Filename(sensor) == "/sys/bus/w1/devices/" \o sensor \o "/w1_slave"

\* the body with the check of the validity flag left out
read_body_unchecked_crc(sensor, fs) ==
    IF Filename(sensor) \notin DOMAIN fs THEN Raise("FileNotFoundError")
    ELSE IF ~fs[Filename(sensor)].readable THEN Raise("OSError")
    ELSE LET lines == split(fs[Filename(sensor)].content)
         IN IF Len(lines) < 2 THEN Raise("ValueError")
            ELSE LET first_line_match == FIRST_LINE_PATTERN(lines[1])
                     second_line_match == SECOND_LINE_PATTERN(lines[2])
                 IN IF first_line_match.matched /\ second_line_match.matched
                    THEN Return(Divide(float(second_line_match.group), 1000))
                    ELSE Raise("RuntimeError: Output not valid")

\* the body of read_ds18s20_temperature, before the decorator
read_body(sensor, fs) ==
    IF Filename(sensor) \notin DOMAIN fs THEN Raise("FileNotFoundError")
    ELSE IF ~fs[Filename(sensor)].readable THEN Raise("OSError")
    ELSE LET lines == split(fs[Filename(sensor)].content)
         IN IF Len(lines) < 2 THEN Raise("ValueError")
            ELSE LET first_line_match == FIRST_LINE_PATTERN(lines[1])
                     second_line_match == SECOND_LINE_PATTERN(lines[2])
                 IN IF first_line_match.matched /\ second_line_match.matched
                    THEN (IF first_line_match.group = YES
                          THEN Return(Divide(float(second_line_match.group), 1000))
                          ELSE Raise("RuntimeError: CRC not valid"))
                    ELSE Raise("RuntimeError: Output not valid")

\* a wrapper that lets the exception through
trap_nan_reraise(outcome) == outcome

\* a wrapper that answers 0.0 for a failed read
trap_nan_zero(outcome) ==
    IF outcome.raised THEN Return(Float(0, 1)) ELSE outcome

\* what the inner function of trap_nan makes of the outcome of f
trap_nan(outcome) ==
    IF outcome.raised THEN Return(NaN) ELSE outcome

read_ds18s20_temperature(sensor, fs) == trap_nan(read_body(sensor, fs))

-----------------------------------------------------------------------------
(* Sample reports of the w1 driver                                         *)

HexBytes == <<"7", "2", " ", "0", "1">>

Report(c) == [readable |-> TRUE, content |-> c]

Unreadable == [readable |-> FALSE, content |-> <<>>]

\* what may precede the crc field on the first line
FirstPrefixes ==
    { HexBytes \o <<" ">>,
      HexBytes \o <<" ">> \o CrcLiteral \o <<"5", "7", " ", "N", "O", " ">>,
      HexBytes \o <<" ">> \o CrcLiteral \o <<"5", "7", " ", "Y", "E", "S", " ">> }

CrcFields ==
    { CrcLiteral \o <<"5", "7", " ">>,
      CrcLiteral \o <<"a", "c", " ">>,
      CrcLiteral \o <<"5", " ">>,
      <<":", "c", "r", "c", "=", "5", "7", " ">> }

Flags == { YES, NO, <<"y", "e", "s">>, <<>> }

FirstTails == { <<>>, <<"x">> }

FirstLines ==
    { pre \o crc \o flag \o tail :
        pre \in FirstPrefixes, crc \in CrcFields, flag \in Flags, tail \in FirstTails }

\* first lines as the driver writes them
PlainFirstLines ==
    { HexBytes \o <<" ">> \o CrcLiteral \o <<"5", "7", " ">> \o flag : flag \in {YES, NO} }

\* what may precede the temperature field on the second line
SecondPrefixes ==
    { <<>>,
      HexBytes \o <<" ">>,
      HexBytes \o <<" ", "t", "=", "5", " ">> }

TemperatureKeys == { <<"t", "=">>, <<"t", ":">> }

\* decimal texts with the integer each one denotes
Temperatures ==
    { [text |-> <<"2", "1", "5", "6", "2">>, milli |-> 21562],
      [text |-> <<"-", "1", "5", "0", "0">>, milli |-> 0 - 1500],
      [text |-> <<"0">>, milli |-> 0],
      [text |-> <<"-", "0">>, milli |-> 0],
      [text |-> <<"0", "0", "7">>, milli |-> 7] }

NotNumbers == { <<>>, <<"-">>, <<"x", "1">> }

SecondTails == { <<>>, <<"x">> }

SecondLines ==
    { pre \o key \o num \o tail :
        pre \in SecondPrefixes, key \in TemperatureKeys,
        num \in {t.text : t \in Temperatures} \cup NotNumbers,
        tail \in SecondTails }

\* every state of /sys/bus/w1/devices/<sensor>/w1_slave the reader is tried on
Contents ==
    { <<>> }
    \cup FirstLines
    \cup { join(<<l1, l2, <<>>>>) : l1 \in FirstLines, l2 \in SecondLines }
    \cup { join(<<l1, l2>>) : l1 \in PlainFirstLines, l2 \in SecondLines }
    \cup { join(<<l2, l1, <<>>>>) : l1 \in PlainFirstLines, l2 \in SecondLines }

Filesystems(sensor) ==
    { EmptyDict }
    \cup { [f \in {Filename(sensor)} |-> Unreadable] }
    \cup { [f \in {Filename(sensor)} |-> Report(c)] : c \in Contents }

SensorIds == {"28-000001", "28-000002"}

-----------------------------------------------------------------------------
(* The reader on its own: one call on one sensor file                      *)

InitReader ==
    /\ pc = "reader_call"
    /\ sensor_id \in SensorIds
    /\ sysfs \in Filesystems(sensor_id)
    /\ result = Unbound
    /\ environ = EmptyDict
    /\ argv = Unbound
    /\ arguments = Unbound
    /\ password = None
    /\ stanley = Unbound
    /\ position = 0
    /\ pending = <<>>
    /\ all_time_series = EmptyDict
    /\ readings = EmptyDict
    /\ clock = 0
    /\ reader_calls = <<>>
    /\ post_calls = <<>>
    /\ log = <<>>
    /\ exception = None
    /\ exit_status = None
    /\ environ_at_start = EmptyDict

\* a caller of read_ds18s20_temperature: the call returns or raises
CallReader ==
    /\ pc = "reader_call"
    /\ result' = read_ds18s20_temperature(sensor_id, sysfs)
    /\ pc' = IF result'.raised THEN "reader_raised" ELSE "reader_returned"
    /\ UNCHANGED <<environ, argv, arguments, password, stanley, position, pending,
                   all_time_series, readings, clock, reader_calls, post_calls, log,
                   exception, exit_status, environ_at_start, sensor_id, sysfs>>

NextReader == CallReader

SpecReader == InitReader /\ [][NextReader]_vars

-----------------------------------------------------------------------------
(* One run of main                                                         *)

MaxSensors == 3

SensorLists == UNION { [1..n -> SensorIds] : n \in 0..MaxSensors }

\* the command line: --url and --username are required, --sensor takes one or
\* more identifiers and defaults to the empty list
CommandLines ==
    { [url |-> u, username |-> n, sensor |-> s] :
        u \in {None, "https://stanley.example"}, n \in {None, "pi"}, s \in SensorLists }

Environments ==
    { [k \in {"HOME"} |-> "/root"],
      [k \in {"HOME", "STANLEY_PASSWORD"} |-> IF k = "HOME" THEN "/root" ELSE "secret"] }

\* the states of a sensor's w1_slave file a run may meet
SensorReports ==
    { <<>>,
      join(<<HexBytes \o <<" ">> \o CrcLiteral \o <<"5", "7", " ">> \o YES,
             HexBytes \o <<" ", "t", "=", "2", "1", "5", "6", "2">>, <<>>>>),
      join(<<HexBytes \o <<" ">> \o CrcLiteral \o <<"5", "7", " ">> \o YES,
             HexBytes \o <<" ", "t", "=", "-", "1", "5", "0", "0">>, <<>>>>),
      join(<<HexBytes \o <<" ">> \o CrcLiteral \o <<"5", "7", " ">> \o NO,
             HexBytes \o <<" ", "t", "=", "2", "1", "5", "6", "2">>, <<>>>>),
      join(<<HexBytes \o <<" ">> \o CrcLiteral \o <<"5", "7", " ">> \o YES,
             HexBytes \o <<" ", "t", "=", "x", "1">>, <<>>>>) }

SensorFilesystems(sensor) ==
    { EmptyDict }
    \cup { [f \in {Filename(sensor)} |-> Unreadable] }
    \cup { [f \in {Filename(sensor)} |-> Report(c)] : c \in SensorReports }

\* pd.Series(values, index=index)
Series(values, index) == [index |-> index, values |-> values]

\* the series name without its namespace
SeriesNameBare(sensor) == sensor

SeriesName(sensor) == "/sensors/temperature/" \o sensor

\* the index evaluated before the values
EvaluationOrderIndexFirst == <<"index", "value">>

\* the order in which Python evaluates the two arguments of pd.Series(...)
EvaluationOrder == <<"value", "index">>

NextArgument ==
    IF Cardinality(DOMAIN pending) < Len(EvaluationOrder)
    THEN EvaluationOrder[Cardinality(DOMAIN pending) + 1]
    ELSE None

\* dict.setdefault(key, value): the first value of a key is kept
SetDefault(dict, key, value) ==
    [k \in DOMAIN dict \cup {key} |-> IF k \in DOMAIN dict THEN dict[k] ELSE value]

\* dict[key] = value
SetItem(dict, key, value) ==
    [k \in DOMAIN dict \cup {key} |-> IF k = key THEN value ELSE dict[k]]

\* the status the interpreter exits with
ExitStatus(e) ==
    IF e = None THEN 0 ELSE IF e = "SystemExit" THEN 2 ELSE 1

Init ==
    /\ pc = "start"
    /\ environ \in Environments
    /\ environ_at_start = environ
    /\ argv \in CommandLines
    /\ arguments = Unbound
    /\ password = None
    /\ stanley = Unbound
    /\ position = 0
    /\ pending = EmptyDict
    /\ all_time_series = EmptyDict
    /\ readings = EmptyDict
    /\ clock = 0
    /\ reader_calls = <<>>
    /\ post_calls = <<>>
    /\ log = <<>>
    /\ exception = None
    /\ exit_status = None
    /\ sensor_id = None
    /\ sysfs = EmptyDict
    /\ result = Unbound

\* arguments = parse_arguments(); setup_logging(arguments.verbose)
ParseArguments ==
    /\ pc = "start"
    /\ IF argv.url = None \/ argv.username = None
       THEN /\ exception' = "SystemExit"
            /\ pc' = "loop_close"
            /\ UNCHANGED arguments
       ELSE /\ arguments' = argv
            /\ pc' = "read_password"
            /\ UNCHANGED exception
    /\ UNCHANGED <<environ, argv, password, stanley, position, pending,
                   all_time_series, readings, clock, reader_calls, post_calls, log,
                   exit_status, environ_at_start, sensor_id, sysfs, result>>

\* password = os.environ.get("STANLEY_PASSWORD", "")
ReadPasswordDefault ==
    /\ pc = "read_password"
    /\ password' = IF "STANLEY_PASSWORD" \in DOMAIN environ
                   THEN environ["STANLEY_PASSWORD"] ELSE ""
    /\ pc' = "del_password"
    /\ UNCHANGED <<environ, argv, arguments, stanley, position, pending,
                   all_time_series, readings, clock, reader_calls, post_calls, log,
                   exception, exit_status, environ_at_start, sensor_id, sysfs, result>>

\* password = os.environ["STANLEY_PASSWORD"]
ReadPassword ==
    /\ pc = "read_password"
    /\ IF "STANLEY_PASSWORD" \in DOMAIN environ
       THEN /\ password' = environ["STANLEY_PASSWORD"]
            /\ pc' = "del_password"
            /\ UNCHANGED exception
       ELSE /\ exception' = "KeyError"
            /\ pc' = "loop_close"
            /\ UNCHANGED password
    /\ UNCHANGED <<environ, argv, arguments, stanley, position, pending,
                   all_time_series, readings, clock, reader_calls, post_calls, log,
                   exit_status, environ_at_start, sensor_id, sysfs, result>>

\* the del statement left out
DeletePasswordSkipped ==
    /\ pc = "del_password"
    /\ log' = Append(log, "Removing password from environment")
    /\ pc' = "construct"
    /\ UNCHANGED <<environ, argv, arguments, password, stanley, position, pending,
                   all_time_series, readings, clock, reader_calls, post_calls,
                   exception, exit_status, environ_at_start, sensor_id, sysfs, result>>

\* del os.environ["STANLEY_PASSWORD"]
DeletePassword ==
    /\ pc = "del_password"
    /\ environ' = [k \in DOMAIN environ \ {"STANLEY_PASSWORD"} |-> environ[k]]
    /\ log' = Append(log, "Removing password from environment")
    /\ pc' = "construct"
    /\ UNCHANGED <<argv, arguments, password, stanley, position, pending,
                   all_time_series, readings, clock, reader_calls, post_calls,
                   exception, exit_status, environ_at_start, sensor_id, sysfs, result>>

\* stanley = StanleyAiohttpInterface(...); timezone = get_localzone()
ConstructClient ==
    /\ pc = "construct"
    /\ stanley' = [url |-> arguments.url, username |-> arguments.username,
                   password |-> password]
    /\ position' = 1
    /\ pending' = EmptyDict
    /\ pc' = "series"
    /\ UNCHANGED <<environ, argv, arguments, password, all_time_series, readings,
                   clock, reader_calls, post_calls, log, exception, exit_status,
                   environ_at_start, sensor_id, sysfs, result>>

\* [read_ds18s20_temperature(sensor)]: the file is whatever the driver shows now
ReadSensor ==
    /\ pc = "series"
    /\ position <= Len(arguments.sensor)
    /\ NextArgument = "value"
    /\ \E fs \in SensorFilesystems(arguments.sensor[position]) :
         LET sensor == arguments.sensor[position]
             outcome == read_ds18s20_temperature(sensor, fs)
         IN /\ sensor_id' = sensor
            /\ sysfs' = fs
            /\ result' = outcome
            /\ reader_calls' = Append(reader_calls,
                                      [sensor |-> sensor, began |-> clock,
                                       returned |-> clock + 1,
                                       failed |-> read_body(sensor, fs).raised,
                                       value |-> outcome.value])
            /\ clock' = clock + 2
            /\ IF outcome.raised
               THEN /\ exception' = outcome.exception
                    /\ pc' = "loop_close"
                    /\ UNCHANGED pending
               ELSE /\ pending' = SetItem(pending, "value", outcome.value)
                    /\ UNCHANGED <<exception, pc>>
    /\ UNCHANGED <<environ, argv, arguments, password, stanley, position,
                   all_time_series, readings, post_calls, log, exit_status,
                   environ_at_start>>

\* pd.to_datetime([datetime.now(timezone)])
TakeTimestamp ==
    /\ pc = "series"
    /\ position <= Len(arguments.sensor)
    /\ NextArgument = "index"
    /\ pending' = SetItem(pending, "index", clock)
    /\ clock' = clock + 1
    /\ UNCHANGED <<pc, environ, argv, arguments, password, stanley, position,
                   all_time_series, readings, reader_calls, post_calls, log,
                   exception, exit_status, environ_at_start, sensor_id, sysfs, result>>

\* sensor: pd.Series(...) of the dict comprehension
StoreSeries ==
    /\ pc = "series"
    /\ position <= Len(arguments.sensor)
    /\ NextArgument = None
    /\ all_time_series' = SetItem(all_time_series, arguments.sensor[position],
                                  Series(<<pending["value"]>>, <<pending["index"]>>))
    /\ position' = position + 1
    /\ pending' = EmptyDict
    /\ UNCHANGED <<pc, environ, argv, arguments, password, stanley, readings, clock,
                   reader_calls, post_calls, log, exception, exit_status,
                   environ_at_start, sensor_id, sysfs, result>>

\* the logging loop, the readings comprehension and the "Sending values" line
BuildReadings ==
    /\ pc = "series"
    /\ position > Len(arguments.sensor)
    /\ readings' = [name \in {SeriesName(s) : s \in DOMAIN all_time_series} |->
                      all_time_series[CHOOSE s \in DOMAIN all_time_series :
                                          SeriesName(s) = name]]
    /\ log' = Append(log, "Sending values to Stanley server...")
    /\ pc' = "post"
    /\ UNCHANGED <<environ, argv, arguments, password, stanley, position, pending,
                   all_time_series, clock, reader_calls, post_calls, exception,
                   exit_status, environ_at_start, sensor_id, sysfs, result>>

\* a submission that is tried again when it fails
PostReadingsRetry ==
    /\ pc = "post"
    /\ post_calls' = Append(post_calls, readings)
    /\ clock' = clock + 1
    /\ \E accepted \in BOOLEAN :
         pc' = IF accepted THEN "all_done" ELSE "post"
    /\ UNCHANGED <<environ, argv, arguments, password, stanley, position, pending,
                   all_time_series, readings, reader_calls, log, exception,
                   exit_status, environ_at_start, sensor_id, sysfs, result>>

\* await stanley.post_readings(readings): the archiver accepts or the call raises
PostReadings ==
    /\ pc = "post"
    /\ post_calls' = Append(post_calls, readings)
    /\ clock' = clock + 1
    /\ \E accepted \in BOOLEAN :
         IF accepted
         THEN /\ pc' = "all_done"
              /\ UNCHANGED exception
         ELSE /\ exception' = "ClientError"
              /\ pc' = "loop_close"
    /\ UNCHANGED <<environ, argv, arguments, password, stanley, position, pending,
                   all_time_series, readings, reader_calls, log, exit_status,
                   environ_at_start, sensor_id, sysfs, result>>

\* logging.info("All done")
AllDone ==
    /\ pc = "all_done"
    /\ log' = Append(log, "All done")
    /\ pc' = "loop_close"
    /\ UNCHANGED <<environ, argv, arguments, password, stanley, position, pending,
                   all_time_series, readings, clock, reader_calls, post_calls,
                   exception, exit_status, environ_at_start, sensor_id, sysfs, result>>

\* main: the finally clause, then the interpreter exits
LoopClose ==
    /\ pc = "loop_close"
    /\ exit_status' = ExitStatus(exception)
    /\ pc' = "exit"
    /\ UNCHANGED <<environ, argv, arguments, password, stanley, position, pending,
                   all_time_series, readings, clock, reader_calls, post_calls, log,
                   exception, environ_at_start, sensor_id, sysfs, result>>

Next ==
    \/ ParseArguments
    \/ ReadPassword
    \/ DeletePassword
    \/ ConstructClient
    \/ ReadSensor
    \/ TakeTimestamp
    \/ StoreSeries
    \/ BuildReadings
    \/ PostReadings
    \/ AllDone
    \/ LoopClose

Spec == Init /\ [][Next]_vars

-----------------------------------------------------------------------------
(* Properties of the sensor reader, checked under SpecReader               *)

ReaderDone == pc \in {"reader_returned", "reader_raised"}

SensorFileReadable ==
    /\ Filename(sensor_id) \in DOMAIN sysfs
    /\ sysfs[Filename(sensor_id)].readable

ReportLines == split(sysfs[Filename(sensor_id)].content)

\* the texts a sample second line can carry in its temperature field, each
\* with the integer it denotes
KnownIntegers == Temperatures \cup { [text |-> <<"5">>, milli |-> 5] }

\* the first line matches with flag YES and the second line matches
ValidReport ==
    /\ SensorFileReadable
    /\ Len(ReportLines) >= 2
    /\ FIRST_LINE_PATTERN(ReportLines[1]).matched
    /\ FIRST_LINE_PATTERN(ReportLines[1]).group = YES
    /\ SECOND_LINE_PATTERN(ReportLines[2]).matched

\* reports written with flag NO and a well-formed temperature line
CrcNoReports ==
    { join(<<l1, pre \o <<"t", "=">> \o t.text, <<>>>>) :
        l1 \in { HexBytes \o <<" ">> \o CrcLiteral \o <<"5", "7", " ">> \o NO },
        pre \in SecondPrefixes, t \in Temperatures }

\* C1: read_ds18s20_temperature never raises: whatever the state of the sensor
\* file (missing, unreadable, empty, one line, malformed lines, flag NO, valid)
\* the call returns, and what it returns is nan or a number of millidegrees
\* over 1000.
C1_ReaderNeverRaises ==
    /\ pc # "reader_raised"
    /\ pc = "reader_returned" =>
         /\ ~result.raised
         /\ \/ result.value = NaN
            \/ ~result.value.nan /\ result.value.den = 1000

C1_Witness_MissingFileGivesNaN ==
    /\ pc = "reader_returned"
    /\ Filename(sensor_id) \notin DOMAIN sysfs
    /\ result.value = NaN

\* C2: when the first line matches with flag YES and the second line matches
\* with the signed integer N, the reader returns exactly N/1000 and not nan.
C2_ValidReportGivesMilliOver1000 ==
    ReaderDone /\ ValidReport =>
        /\ pc = "reader_returned"
        /\ \E t \in KnownIntegers :
             /\ t.text = SECOND_LINE_PATTERN(ReportLines[2]).group
             /\ result.value = Float(t.milli, 1000)

C2_Witness_NegativeMillidegrees ==
    /\ pc = "reader_returned"
    /\ ValidReport
    /\ ReportLines[2] = HexBytes \o <<" ", "t", "=", "-", "1", "5", "0", "0">>
    /\ result.value = Float(0 - 1500, 1000)

\* C3: the reader returns a number only if both lines match and the flag is
\* YES; with flag NO, a first line that does not match or a second line that
\* does not match (or fewer than two lines, or no readable file) it returns nan.
C3_InvalidReportGivesNaN ==
    ReaderDone =>
        /\ ~ValidReport => pc = "reader_returned" /\ result.value = NaN
        /\ SensorFileReadable /\ sysfs[Filename(sensor_id)].content \in CrcNoReports
             => pc = "reader_returned" /\ result.value = NaN

C3_Witness_CrcNoGivesNaN ==
    /\ pc = "reader_returned"
    /\ SensorFileReadable
    /\ Len(ReportLines) >= 2
    /\ FIRST_LINE_PATTERN(ReportLines[1]).matched
    /\ FIRST_LINE_PATTERN(ReportLines[1]).group = NO
    /\ SECOND_LINE_PATTERN(ReportLines[2]).matched
    /\ result.value = NaN

-----------------------------------------------------------------------------
(* Properties of the run, checked under Spec                               *)

CredentialSetAtStart == "STANLEY_PASSWORD" \in DOMAIN environ_at_start

CredentialInEnvironment == "STANLEY_PASSWORD" \in DOMAIN environ

Distinct(seq) == \A i, j \in DOMAIN seq : i # j => seq[i] # seq[j]

\* the calls of the reader made for sensor s, and the last of them
CallsOf(s) == {i \in DOMAIN reader_calls : reader_calls[i].sensor = s}

LastCall(s) == Max(CallsOf(s))

\* the data points of a payload
DataPoints(payload) ==
    UNION { {<<name, i>> : i \in DOMAIN payload[name].values} : name \in DOMAIN payload }

\* C4: for a list of distinct sensor identifiers the payload handed to
\* post_readings has exactly the keys "/sensors/temperature/" + id, one per
\* configured id, and every key maps to a series of exactly one data point.
C4_PayloadKeysAreTheSeriesNames ==
    \A k \in DOMAIN post_calls :
        Distinct(arguments.sensor) =>
            /\ DOMAIN post_calls[k] =
                 { "/sensors/temperature/" \o id : id \in Range(arguments.sensor) }
            /\ \A name \in DOMAIN post_calls[k] :
                 /\ Len(post_calls[k][name].values) = 1
                 /\ Len(post_calls[k][name].index) = 1

C4_Witness_TwoSensorsPosted ==
    /\ Len(post_calls) = 1
    /\ arguments.sensor = <<"28-000001", "28-000002">>
    /\ DOMAIN post_calls[1] =
         {"/sensors/temperature/28-000001", "/sensors/temperature/28-000002"}

\* C5: when STANLEY_PASSWORD is unset at start, the run ends with an uncaught
\* error and a non-zero status, and at no point is the archive client
\* constructed, a sensor read or post_readings invoked.
C5_NoCredentialNoClient ==
    ~CredentialSetAtStart =>
        /\ pc \in {"start", "read_password", "loop_close", "exit"}
        /\ stanley = Unbound
        /\ post_calls = <<>>
        /\ reader_calls = <<>>
        /\ pc \in {"loop_close", "exit"} => exception \in {"KeyError", "SystemExit"}
        /\ pc = "exit" => exit_status # 0

C5_Witness_KeyErrorExit ==
    /\ ~CredentialSetAtStart
    /\ pc = "exit"
    /\ exception = "KeyError"
    /\ exit_status = 1
    /\ stanley = Unbound

\* C6: from the removal that directly follows the read of STANLEY_PASSWORD on
\* (client construction, every sensor read, the submission, the exit) the
\* variable is absent from the environment, and nothing adds it again.
C6_CredentialScrubbed ==
    /\ password # None /\ pc \notin {"start", "read_password", "del_password"}
         => ~CredentialInEnvironment
    /\ stanley # Unbound \/ reader_calls # <<>> \/ post_calls # <<>>
         => ~CredentialInEnvironment

C6_Witness_ScrubbedAtExit ==
    /\ pc = "exit"
    /\ CredentialSetAtStart
    /\ password = "secret"
    /\ post_calls # <<>>
    /\ ~CredentialInEnvironment

\* C7 as stated: the number of readings submitted equals the length of the
\* sensor list, duplicates included.
C7_Original_OneReadingPerOccurrence ==
    \A k \in DOMAIN post_calls :
        Cardinality(DataPoints(post_calls[k])) = Len(arguments.sensor)

\* C7 amended: the reader is invoked once per occurrence in command-line
\* order, but the readings are keyed by identifier, so the submission carries
\* one reading per distinct identifier, the one of its last occurrence.
C7_OneReadingPerDistinctSensor ==
    \A k \in DOMAIN post_calls :
        /\ [i \in DOMAIN reader_calls |-> reader_calls[i].sensor] = arguments.sensor
        /\ \A i, j \in DOMAIN reader_calls :
             i < j => reader_calls[i].returned < reader_calls[j].began
        /\ Cardinality(DataPoints(post_calls[k])) =
             Cardinality(Range(arguments.sensor))
        /\ \A s \in Range(arguments.sensor) :
             LET series == post_calls[k]["/sensors/temperature/" \o s]
             IN /\ series.values = <<reader_calls[LastCall(s)].value>>
                /\ series.index[1] > reader_calls[LastCall(s)].began

C7_Witness_DuplicatePosted ==
    /\ Len(post_calls) = 1
    /\ arguments.sensor = <<"28-000001", "28-000002", "28-000001">>
    /\ reader_calls[1].value = NaN
    /\ reader_calls[3].value = Float(21562, 1000)
    /\ Cardinality(DataPoints(post_calls[1])) = 2

C9_SingleSubmissionAfterAllReads ==
    /\ Len(post_calls) <= 1
    /\ post_calls # <<>> =>
         /\ Len(reader_calls) = Len(arguments.sensor)
         /\ position > Len(arguments.sensor)
         /\ pending = EmptyDict
    /\ exception = "ClientError" =>
         /\ pc \in {"loop_close", "exit"}
         /\ Len(post_calls) = 1
         /\ "All done" \notin Range(log)
         /\ pc = "exit" => exit_status # 0

C9_Witness_FailedSubmission ==
    /\ pc = "exit"
    /\ exception = "ClientError"
    /\ Len(arguments.sensor) = 2
    /\ Len(reader_calls) = 2
    /\ exit_status = 1

\* C10 as stated: the timestamp of a sensor's data point was taken before the
\* read of that sensor's file began.
C10_Original_TimestampBeforeRead ==
    pending = EmptyDict =>
        \A s \in DOMAIN all_time_series :
            all_time_series[s].index[1] < reader_calls[LastCall(s)].began

\* C10 amended: the reader is invoked first and the timestamp is captured
\* after it has returned: the timestamp of a sensor's data point was taken
\* after the read of that sensor's file ended.
C10_TimestampAfterRead ==
    pending = EmptyDict =>
        \A s \in DOMAIN all_time_series :
            all_time_series[s].index[1] > reader_calls[LastCall(s)].returned

C10_Witness_SeriesStored ==
    /\ pc = "series"
    /\ pending = EmptyDict
    /\ "28-000001" \in DOMAIN all_time_series
    /\ all_time_series["28-000001"].index[1] > reader_calls[LastCall("28-000001")].returned

====
